---- MODULE Spec2Model ----
(***************************************************************************)
(* FitTracker: the goal calculator (src/lib/utils.ts), the Profile form's  *)
(* daily-calorie-goal computation (src/pages/Dashboard.tsx, Profile) and   *)
(* the estimation wrappers around the Gemini service (src/lib/gemini.ts).  *)
(*                                                                         *)
(* Arithmetic.  The calculator works on IEEE doubles.  With integer age,   *)
(* height and weight (the form's number inputs have the default step 1)    *)
(* the BMR is a multiple of 1/4 and every activity multiplier a multiple   *)
(* of 1/1000, so BMR x multiplier is a multiple of 1/4000.  The model      *)
(* keeps these quantities as exact integers: a name ending in 4 is the     *)
(* quantity times 4, in 1000 times 1000, in 4000 times 4000.               *)
(*                                                                         *)
(* Absent fields.  The calculator tests its inputs with `!x`, which does   *)
(* not distinguish undefined, null, 0 and "".  An absent numeric field is  *)
(* the number 0 and an absent string field the string "".                  *)
(***************************************************************************)
EXTENDS Integers, Sequences, FiniteSets, TLC

VARIABLES
  userProfile,   \* AuthContext.userProfile: the profile the pages read
  goals,         \* NutrientGoals' memoised calculateNutrientGoals result
  profilePc,     \* Profile.handleSubmit: "idle" or "awaitUpdate"
  updates,       \* the updates object Profile.handleSubmit hands to updateProfile
  foodPc,        \* analyzeFoodDescription: "idle", "awaitService", "resolved", "rejected"
  foodArg,       \* its description argument
  foodResp,      \* what the Gemini call produced for it
  foodResult,    \* the value its promise settled with
  exPc,          \* analyzeExerciseDescription: as foodPc
  exArgs,        \* its description, duration and userWeight arguments
  exResp,        \* what the Gemini call produced for it
  exResult,      \* the value its promise settled with
  ctxUser,       \* AuthContext.user: the id of the signed-in user, "" for null
  authUid,       \* the user of the Supabase client's session, "" for none
  lsUser,        \* localStorage.authUser: the id it holds, "" when absent
  session,       \* AuthContext.session: the id of its user, "" for null
  profileId,     \* the id of the row AuthContext.userProfile holds, "" for null
  lsProfile,     \* localStorage.authProfile: "" when absent, "null", or the row's id
  authCalls,     \* the calls of AuthContext functions in flight
  location,      \* the route the browser shows
  selectedDate,  \* the mounted page's selectedDate, an instant in ms
  foodLogs,      \* the foodLogs state of the mounted FoodLog or Dashboard
  exerciseLogs,  \* the exerciseLogs state of the mounted ExerciseLog or Dashboard
  food_logs,     \* the rows of table food_logs
  exercise_logs, \* the rows of table exercise_logs
  nextId,        \* the number of rows created so far; row ids are 1, 2, ...
  listReqs,      \* the list requests in flight
  sub,           \* the handleSubmit call in flight
  delReqs,       \* the delete requests in flight
  lastEvent,     \* what the last handler step showed the user
  tzOffset       \* the browser's time zone, as getTimezoneOffset() minutes

goalVars == <<userProfile, goals, profilePc, updates>>
foodVars == <<foodPc, foodArg, foodResp, foodResult>>
exVars == <<exPc, exArgs, exResp, exResult>>
authVars ==
  <<ctxUser, authUid, lsUser, location, session, profileId, lsProfile, authCalls>>
pageVars == <<selectedDate, foodLogs, exerciseLogs>>
storeVars == <<food_logs, exercise_logs, nextId>>
reqVars == <<listReqs, sub, delReqs, lastEvent>>
appVars == <<authVars, tzOffset, pageVars, storeVars, reqVars>>
vars == <<goalVars, foodVars, exVars, appVars>>

----------------------------------------------------------------------------
(* Input domains *)

HeightSpan == 3
WeightSpan == 2

MinAge == 13
MaxAge == 120
MinHeight == 100
MinWeight == 30
MaxWeight == 300

Ages == {MinAge, 25, 30, MaxAge}
Heights == {165, 180} \cup (MinHeight .. MinHeight + HeightSpan)
Weights == {60, 80, MaxWeight} \cup (MinWeight .. MinWeight + WeightSpan)

GenderOptions == {"male", "female", "other"}
ActivityOptions == {"sedentary", "light", "moderate", "high", "very_active"}
GoalOptions ==
  {"lose_weight", "maintain_weight", "gain_weight", "build_muscle", "improve_fitness"}

\* activity_level values of the User type and of the users table
UserActivityLevels == {"sedentary", "light", "moderate", "active", "very_active"}

NoProfileFields ==
  [age |-> 0, gender |-> "", height |-> 0, weight |-> 0,
   activity_level |-> "", fitness_goal |-> "", daily_calorie_goal |-> 0]

\* Partial<User> values handed to the calculator: every field present or absent
ProfileInputs ==
  [age : Ages \cup {0},
   gender : GenderOptions \cup {""},
   height : Heights \cup {0},
   weight : Weights \cup {0},
   activity_level : ActivityOptions \cup UserActivityLevels \cup {""},
   fitness_goal : GoalOptions \cup {""},
   daily_calorie_goal : {0}]

----------------------------------------------------------------------------
\* rounding an exact half away from zero instead
MathRound_HalfAway(num, den) ==
  IF num >= 0 THEN (2 * num + den) \div (2 * den)
              ELSE -((2 * (-num) + den) \div (2 * den))

(* Math.round: the nearest integer, an exact half going towards +infinity. *)
(* num/den with den > 0; \div is the floor division.                       *)
MathRound(num, den) == (2 * num + den) \div (2 * den)

\* a guard that forgets fitness_goal
MissingField_NoGoal(user) ==
  \/ user.age = 0
  \/ user.gender = ""
  \/ user.height = 0
  \/ user.weight = 0
  \/ user.activity_level = ""

(* utils.ts: the guard of calculateNutrientGoals *)
MissingField(user) ==
  \/ user.age = 0
  \/ user.gender = ""
  \/ user.height = 0
  \/ user.weight = 0
  \/ user.activity_level = ""
  \/ user.fitness_goal = ""

ZeroGoals == [tdee |-> 0, proteinGoal |-> 0, carbsGoal |-> 0, fatGoal |-> 0]

\* the two sex constants swapped
Bmr4_Swapped(user) ==
  IF user.gender = "male"
    THEN 40 * user.weight + 25 * user.height - 20 * user.age - 644
    ELSE 40 * user.weight + 25 * user.height - 20 * user.age + 20

(* utils.ts: Mifflin-St Jeor, times 4 *)
Bmr4(user) ==
  IF user.gender = "male"
    THEN 40 * user.weight + 25 * user.height - 20 * user.age + 20
    ELSE 40 * user.weight + 25 * user.height - 20 * user.age - 644

(* utils.ts: the activity switch, times 1000 *)
ActivityMultiplier1000(activity_level) ==
  CASE activity_level = "light" -> 1375
    [] activity_level = "moderate" -> 1550
    [] activity_level = "active" -> 1725
    [] activity_level = "very_active" -> 1900
    [] OTHER -> 1200

\* a switch without the build_muscle case
GoalAdjust4000_NoMuscle(tdee4000, fitness_goal) ==
  CASE fitness_goal = "lose_weight" -> tdee4000 - 500 * 4000
    [] fitness_goal = "gain_weight" -> tdee4000 + 500 * 4000
    [] OTHER -> tdee4000

(* utils.ts: the fitness-goal switch applied to tdee, times 4000 *)
GoalAdjust4000(tdee4000, fitness_goal) ==
  CASE fitness_goal = "lose_weight" -> tdee4000 - 500 * 4000
    [] fitness_goal \in {"gain_weight", "build_muscle"} -> tdee4000 + 500 * 4000
    [] OTHER -> tdee4000

(* utils.ts: tdee after the goal adjustment and before the output rounding *)
Tdee4000(user) ==
  GoalAdjust4000(Bmr4(user) * ActivityMultiplier1000(user.activity_level),
                 user.fitness_goal)

ProteinGoal(user) == MathRound(2 * user.weight, 1)
FatGoal(user) == MathRound(9 * user.weight, 10)

\* carbs taken from the rounded output tdee
CarbsGoal_FromRounded(user) ==
  MathRound(MathRound(Tdee4000(user), 4000)
              - ProteinGoal(user) * 4 - FatGoal(user) * 9, 4)

(* utils.ts: remainingCalories / 4, rounded *)
CarbsGoal(user) ==
  LET proteinCalories == ProteinGoal(user) * 4
      fatCalories == FatGoal(user) * 9
      remainingCalories4000 ==
        Tdee4000(user) - 4000 * proteinCalories - 4000 * fatCalories
  IN MathRound(remainingCalories4000, 4 * 4000)

\* a calculator that cuts remainingCalories / 4 off instead of rounding it
calculateNutrientGoals_CarbsCutOff(user) ==
  IF MissingField(user)
    THEN ZeroGoals
    ELSE [tdee |-> MathRound(Tdee4000(user), 4000),
          proteinGoal |-> ProteinGoal(user),
          carbsGoal |-> (Tdee4000(user) - 4000 * ProteinGoal(user) * 4
                           - 4000 * FatGoal(user) * 9) \div (4 * 4000),
          fatGoal |-> FatGoal(user)]

(* utils.ts: calculateNutrientGoals *)
calculateNutrientGoals(user) ==
  IF MissingField(user)
    THEN ZeroGoals
    ELSE [tdee |-> MathRound(Tdee4000(user), 4000),
          proteinGoal |-> ProteinGoal(user),
          carbsGoal |-> CarbsGoal(user),
          fatGoal |-> FatGoal(user)]

----------------------------------------------------------------------------
(* NutrientGoals component *)

NotComputed == [computed |-> FALSE, threw |-> FALSE, value |-> ZeroGoals]

(* The context hands the component a profile (sign-in, refresh, reload). *)
LoadProfile(p) ==
  /\ userProfile' = p
  /\ goals' = NotComputed
  /\ UNCHANGED <<profilePc, updates, foodVars, exVars, appVars>>

\* a calculator that writes its result back into the profile object
RenderNutrientGoals_Mutating ==
  LET result == calculateNutrientGoals(userProfile)
  IN /\ goals' = [computed |-> TRUE, threw |-> FALSE, value |-> result]
     /\ userProfile' = [userProfile EXCEPT !.daily_calorie_goal = result.tdee]
     /\ UNCHANGED <<profilePc, updates, foodVars, exVars, appVars>>

(* NutrientGoals' useMemo: calls calculateNutrientGoals(userProfile). *)
RenderNutrientGoals ==
  /\ goals' = [computed |-> TRUE, threw |-> FALSE,
               value |-> calculateNutrientGoals(userProfile)]
  /\ UNCHANGED <<userProfile, profilePc, updates, foodVars, exVars, appVars>>

----------------------------------------------------------------------------
(* Profile page (Dashboard.tsx, Profile) *)

\* age, height and weight typed into the form: the spec's first example and
\* the oldest, shortest, lightest person the inputs' min/max admit
FormBodies ==
  {[age |-> 25, height |-> 180, weight |-> 80],
   [age |-> MaxAge, height |-> MinHeight, weight |-> MinWeight]}

NoUpdates == NoProfileFields

(* Profile.handleSubmit: the BMR branches, times 4 *)
FormBmr4(gender, ageNum, heightNum, weightNum) ==
  IF gender = "male"
    THEN 40 * weightNum + 25 * heightNum - 20 * ageNum + 20
    ELSE IF gender = "female"
      THEN 40 * weightNum + 25 * heightNum - 20 * ageNum - 644
      ELSE 0

(* Profile.handleSubmit: the activity switch, times 1000 *)
FormActivityMultiplier1000(activityLevel) ==
  CASE activityLevel = "light" -> 1375
    [] activityLevel = "moderate" -> 1550
    [] activityLevel = "high" -> 1725
    [] activityLevel = "very_active" -> 1900
    [] OTHER -> 1200

(* Profile.handleSubmit: dailyCalorieGoal = Math.round(tdee), then the goal switch *)
FormDailyCalorieGoal(gender, ageNum, heightNum, weightNum, activityLevel, fitnessGoal) ==
  LET tdee4000 == FormBmr4(gender, ageNum, heightNum, weightNum)
                    * FormActivityMultiplier1000(activityLevel)
      dailyCalorieGoal == MathRound(tdee4000, 4000)
  IN CASE fitnessGoal = "lose_weight" -> dailyCalorieGoal - 500
       [] fitnessGoal \in {"gain_weight", "build_muscle"} -> dailyCalorieGoal + 500
       [] OTHER -> dailyCalorieGoal

----------------------------------------------------------------------------
(* JavaScript values as the estimation code sees them: typeof and payload *)

MaxAmount == 1

Undefined == [t |-> "undefined", n |-> 0, s |-> ""]
Num(n) == [t |-> "number", n |-> n, s |-> ""]
Str(s) == [t |-> "string", n |-> 0, s |-> s]
Arr(s) == [t |-> "object", n |-> 0, s |-> s]

\* what a field of the model's JSON answer can hold
AmountValues == {Undefined, Str("12")} \cup {Num(n) : n \in -1 .. MaxAmount}
BreakdownValues == {Undefined, Arr("breakdown")}

ExerciseTypes == {"cardio", "strength", "flexibility", "sports", "other"}
Intensities == {"light", "moderate", "vigorous", "high"}

Descriptions == {"2 eggs", "5k run"}

(* What `model.generateContent` and `response.text()` can produce:         *)
(*   error   - the call rejects or text() throws                           *)
(*   noJson  - the text has no {...} span (jsonMatch is null)              *)
(*   badJson - the span is not JSON (JSON.parse throws)                    *)
(*   json    - the span parses to the object `body`                        *)
ResponseKinds == {"error", "noJson", "badJson", "json"}

----------------------------------------------------------------------------
(* gemini.ts: analyzeFoodDescription *)

NoFoodBody ==
  [calories |-> Undefined, protein |-> Undefined, carbs |-> Undefined,
   fat |-> Undefined, confidence |-> Undefined, breakdown |-> Undefined]

FoodBodies ==
  [calories : AmountValues, protein : AmountValues, carbs : AmountValues,
   fat : AmountValues, confidence : AmountValues, breakdown : BreakdownValues]

FoodResponses ==
  {[kind |-> k, body |-> NoFoodBody] : k \in ResponseKinds \ {"json"}}
    \cup {[kind |-> "json", body |-> b] : b \in FoodBodies}

NoFoodResponse == [kind |-> "none", body |-> NoFoodBody]
NoFoodResult == [from |-> "none", value |-> NoFoodBody]

\* a validation that forgets fat
FoodInvalid_NoFat(analysis) ==
  \/ analysis.calories.t # "number"
  \/ analysis.protein.t # "number"
  \/ analysis.carbs.t # "number"

(* the `Validate required fields` test of analyzeFoodDescription *)
FoodInvalid(analysis) ==
  \/ analysis.calories.t # "number"
  \/ analysis.protein.t # "number"
  \/ analysis.carbs.t # "number"
  \/ analysis.fat.t # "number"

(* the try block: does it throw, and what does it return otherwise *)
FoodTry(resp) ==
  IF resp.kind # "json"
    THEN [threw |-> TRUE, value |-> NoFoodBody]
    ELSE IF FoodInvalid(resp.body)
      THEN [threw |-> TRUE, value |-> NoFoodBody]
      ELSE [threw |-> FALSE, value |-> resp.body]

(* the catch block's return value *)
FoodFallback ==
  [calories |-> Num(300), protein |-> Num(15), carbs |-> Num(30), fat |-> Num(10),
   confidence |-> Num(50),
   breakdown |-> Arr("Unable to analyze - using estimated values")]

(* how the promise settles: the catch block returns, so it always resolves *)
FoodSettle(resp) ==
  LET attempt == FoodTry(resp)
  IN IF attempt.threw
       THEN [pc |-> "resolved", result |-> [from |-> "fallback", value |-> FoodFallback]]
       ELSE [pc |-> "resolved", result |-> [from |-> "service", value |-> attempt.value]]

(* analyzeFoodDescription(description) up to `await model.generateContent` *)
AnalyzeFoodCall(description) ==
  /\ foodPc # "awaitService"
  /\ foodPc' = "awaitService"
  /\ foodArg' = description
  /\ foodResp' = NoFoodResponse
  /\ foodResult' = NoFoodResult

\* the call made on its own
AnalyzeFoodStart(description) ==
  /\ AnalyzeFoodCall(description)
  /\ UNCHANGED <<goalVars, exVars, appVars>>

(* the service answers (or fails) and the function runs to its return *)
AnalyzeFoodReturn(resp) ==
  /\ foodPc = "awaitService"
  /\ foodResp' = resp
  /\ foodPc' = FoodSettle(resp).pc
  /\ foodResult' = FoodSettle(resp).result

\* the return of a call made on its own
AnalyzeFoodSettle(resp) ==
  /\ AnalyzeFoodReturn(resp)
  /\ UNCHANGED <<foodArg, goalVars, exVars, appVars>>

----------------------------------------------------------------------------
(* gemini.ts: analyzeExerciseDescription *)

NoExerciseBody ==
  [caloriesBurned |-> Undefined, exerciseType |-> Undefined, intensity |-> Undefined,
   confidence |-> Undefined, breakdown |-> Undefined]

ExerciseBodies ==
  [caloriesBurned : AmountValues,
   exerciseType : {Undefined, Num(0), Str("yoga")} \cup {Str(x) : x \in ExerciseTypes},
   intensity : {Undefined, Str("extreme")} \cup {Str(x) : x \in Intensities},
   confidence : AmountValues,
   breakdown : BreakdownValues]

ExerciseResponses ==
  {[kind |-> k, body |-> NoExerciseBody] : k \in ResponseKinds \ {"json"}}
    \cup {[kind |-> "json", body |-> b] : b \in ExerciseBodies}

NoExerciseResponse == [kind |-> "none", body |-> NoExerciseBody]
NoExerciseResult == [from |-> "none", value |-> NoExerciseBody]

\* durationNum is undefined or the parsed minutes; userWeight is the profile's weight
DurationArgs == {Undefined, Num(30), Num(45)}
WeightArgs == {Undefined, Num(80)}
ExerciseArgs ==
  [description : Descriptions, duration : DurationArgs, userWeight : WeightArgs]
NoExerciseArgs == [description |-> "", duration |-> Undefined, userWeight |-> Undefined]

(* the `Validate required fields` test of analyzeExerciseDescription *)
ExerciseInvalid(analysis) ==
  \/ analysis.caloriesBurned.t # "number"
  \/ ~(analysis.exerciseType.t = "string" /\ analysis.exerciseType.s \in ExerciseTypes)
  \/ ~(analysis.intensity.t = "string" /\ analysis.intensity.s \in Intensities)

ExerciseTry(resp) ==
  IF resp.kind # "json"
    THEN [threw |-> TRUE, value |-> NoExerciseBody]
    ELSE IF ExerciseInvalid(resp.body)
      THEN [threw |-> TRUE, value |-> NoExerciseBody]
      ELSE [threw |-> FALSE, value |-> resp.body]

\* `duration ? ... : ...`: undefined, 0 and NaN are falsy
Truthy(v) == v.t = "number" /\ v.n # 0

\* a fallback that ignores the duration
ExerciseFallback_Fixed(duration) ==
  [caloriesBurned |-> Num(200),
   exerciseType |-> Str("other"),
   intensity |-> Str("moderate"),
   confidence |-> Num(50),
   breakdown |-> Arr("Unable to analyze - using estimated values")]

(* the catch block's return value *)
ExerciseFallback(duration) ==
  [caloriesBurned |-> IF Truthy(duration) THEN Num(MathRound(duration.n * 5, 1))
                                          ELSE Num(200),
   exerciseType |-> Str("other"),
   intensity |-> Str("moderate"),
   confidence |-> Num(50),
   breakdown |-> Arr("Unable to analyze - using estimated values")]

ExerciseSettle(args, resp) ==
  LET attempt == ExerciseTry(resp)
  IN IF attempt.threw
       THEN [pc |-> "resolved",
             result |-> [from |-> "fallback", value |-> ExerciseFallback(args.duration)]]
       ELSE [pc |-> "resolved", result |-> [from |-> "service", value |-> attempt.value]]

(* analyzeExerciseDescription(description, duration, userWeight) up to the await *)
AnalyzeExerciseCall(args) ==
  /\ exPc # "awaitService"
  /\ exPc' = "awaitService"
  /\ exArgs' = args
  /\ exResp' = NoExerciseResponse
  /\ exResult' = NoExerciseResult

\* the call made on its own
AnalyzeExerciseStart(args) ==
  /\ AnalyzeExerciseCall(args)
  /\ UNCHANGED <<goalVars, foodVars, appVars>>

(* the service answers (or fails) and the function runs to its return *)
AnalyzeExerciseReturn(resp) ==
  /\ exPc = "awaitService"
  /\ exResp' = resp
  /\ exPc' = ExerciseSettle(exArgs, resp).pc
  /\ exResult' = ExerciseSettle(exArgs, resp).result

\* the return of a call made on its own
AnalyzeExerciseSettle(resp) ==
  /\ AnalyzeExerciseReturn(resp)
  /\ UNCHANGED <<exArgs, goalVars, foodVars, appVars>>

----------------------------------------------------------------------------
(* Users, routes and time *)

Users == {"A", "B"}
NoUser == ""

\* the routes behind ProtectedRoute that this model mounts
Protected == {"/dashboard", "/food-log", "/exercise-log"}
Locations == Protected \cup {"/", "/login"}

MsPerDay == 86400000

\* the calendar days the model's clock and date picker reach
Days == {0, 1}

\* how many rows the store comes to hold, and how many handler calls and
\* requests a user action may leave in flight
MaxEntries == 1
MaxInFlight == 1

\* what Date.prototype.getTimezoneOffset returns in the browser: the minutes
\* UTC is ahead of local time
TzOffsets == {0}

\* how many requests and handler calls a newly picked date may join
MaxOverlap == 2

\* the first and the last millisecond of a UTC day
TimesOfDay == {0, MsPerDay - 1}

\* what `new Date()` can be when a page mounts
ClockInstants == {d * MsPerDay + t : d \in Days, t \in TimesOfDay}

\* what the DatePicker hands to onDateChange: local midnight of a day
PickedInstants(tz) == {d * MsPerDay + tz * 60000 : d \in Days}

(* format(date, "yyyy-MM-dd"): the local calendar day of the instant, as a *)
(* day number                                                              *)
FormatDay(date, tz) == (date - tz * 60000) \div MsPerDay

(* the template strings `${dateStr}T00:00:00.000Z` and                     *)
(* `${dateStr}T23:59:59.999Z`, as instants                                 *)
StartOfDay(dateStr) == dateStr * MsPerDay
EndOfDay(dateStr) == dateStr * MsPerDay + (MsPerDay - 1)

(* .gte('created_at', startOfDay).lt('created_at', endOfDay) *)
InDayWindow(created_at, dateStr) ==
  /\ created_at >= StartOfDay(dateStr)
  /\ created_at < EndOfDay(dateStr)

----------------------------------------------------------------------------
(* The Record Store: tables food_logs and exercise_logs with their CHECK   *)
(* constraints and row-level-security policies                             *)

\* a column value is acceptable for a numeric NOT NULL column
IsNumber(v) == v.t = "number"

(* food_logs: calories INTEGER NOT NULL CHECK (calories >= 0); protein,    *)
(* carbs, fat DECIMAL(8,2) CHECK (>= 0), nullable                          *)
FoodChecks(row) ==
  /\ IsNumber(row.calories) /\ row.calories.n >= 0
  /\ \A f \in {"protein", "carbs", "fat"} :
       \/ row[f].t = "undefined"
       \/ IsNumber(row[f]) /\ row[f].n >= 0

\* an exercise_logs without the CHECKs on its two numbers
ExerciseChecks_AnyNumber(row) ==
  /\ row.exercise_type.t = "string" /\ row.exercise_type.s \in ExerciseTypes
  /\ row.intensity.t = "string" /\ row.intensity.s \in Intensities
  /\ IsNumber(row.duration_minutes)
  /\ IsNumber(row.calories_burned)

(* exercise_logs: exercise_type and intensity of the listed values,        *)
(* duration_minutes INTEGER NOT NULL CHECK (> 0), calories_burned INTEGER  *)
(* NOT NULL CHECK (>= 0)                                                   *)
ExerciseChecks(row) ==
  /\ row.exercise_type.t = "string" /\ row.exercise_type.s \in ExerciseTypes
  /\ row.intensity.t = "string" /\ row.intensity.s \in Intensities
  /\ IsNumber(row.duration_minutes) /\ row.duration_minutes.n > 0
  /\ IsNumber(row.calories_burned) /\ row.calories_burned.n >= 0

(* table users: its columns *)
UsersColumns ==
  {"id", "email", "full_name", "avatar_url", "created_at", "updated_at",
   "age", "weight", "height", "activity_level", "daily_calorie_goal", "fitness_goal"}

(* table users: the values its fitness_goal CHECK admits *)
UserFitnessGoals == {"lose_weight", "maintain_weight", "gain_weight", "build_muscle"}

(* table users: the CHECK constraints on the columns an update sets *)
UsersChecks(row) ==
  /\ row.age > 0 /\ row.age < 150
  /\ row.weight > 0
  /\ row.height > 0
  /\ row.activity_level \in UserActivityLevels
  /\ row.daily_calorie_goal > 0
  /\ row.fitness_goal \in UserFitnessGoals

(* .update({...updates, updated_at}): the request is refused when it names *)
(* a column the table does not have or a CHECK fails                       *)
UsersAccepts(upd) ==
  /\ (DOMAIN upd) \cup {"updated_at"} \subseteq UsersColumns
  /\ UsersChecks(upd)

(* "Users can view own profile" and "Users can update own profile":        *)
(* USING (auth.uid() = id)                                                 *)
UsersPolicy(jwt, id) == jwt # NoUser /\ jwt = id

\* an insert policy that lets any signed-in user insert any row
InsertPolicy_AnyUser(jwt, row) == jwt # NoUser

(* "Users can insert own ... logs": WITH CHECK (auth.uid() = user_id) *)
InsertPolicy(jwt, row) == jwt # NoUser /\ jwt = row.user_id

(* "Users can view own ... logs": USING (auth.uid() = user_id) *)
SelectPolicy(jwt, row) == jwt # NoUser /\ jwt = row.user_id

(* "Users can delete own ... logs": USING (auth.uid() = user_id) *)
DeletePolicy(jwt, row) == jwt # NoUser /\ jwt = row.user_id

\* a list query without the owner filter on a table without the policy
ListRows_AnyOwner(table, jwt, uid, dateStr) ==
  {row \in table : InDayWindow(row.created_at, dateStr)}

(* the list query of fetchFoodLogsForDate, fetchExerciseLogsForDate and    *)
(* fetchDataForDate on one table: select * where user_id = uid and         *)
(* created_at in the day's window, as the policy lets the caller see it    *)
ListRows(table, jwt, uid, dateStr) ==
  {row \in table : /\ SelectPolicy(jwt, row)
                   /\ row.user_id = uid
                   /\ InDayWindow(row.created_at, dateStr)}

(* .delete().eq('id', logId): the rows it leaves *)
DeleteRows(table, jwt, logId) ==
  {row \in table : ~(row.id = logId /\ DeletePolicy(jwt, row))}

----------------------------------------------------------------------------
(* AuthContext, the router and the state the log pages keep *)

\* a request or handler belongs to a mounted page ("live"), to a page that
\* was unmounted while its code keeps running ("orphan"), or to a document
\* that was reloaded, so that only the request already sent remains ("dead")
NoSubmit ==
  [pc |-> "idle", page |-> "", uid |-> NoUser, date |-> 0, duration |-> Undefined,
   jwt |-> NoUser, mode |-> "live"]

NoEvent == [op |-> "none", page |-> "", failed |-> FALSE, toast |-> "none"]

Event(op, page, failed, toast) ==
  [op |-> op, page |-> page, failed |-> failed, toast |-> toast]

\* how a request to the Record Store can end: it is processed, it comes back
\* with an error result, or the client throws
Outcomes == {"ok", "error", "throw"}

\* a route that renders its children for anybody
ProtectedRoute_Open(u, path) == path

(* ProtectedRoute: with a user the children render; without one it renders *)
(* null and its effect navigates to /login.  The route shown afterwards.   *)
ProtectedRoute(u, path) ==
  IF path \in Protected /\ u = NoUser THEN "/login" ELSE path

(* a fetch...ForDate(date) call up to its await: `if (!user) return`, then *)
(* the request leaves with the client's session                            *)
FetchForDate(page, uid, date, tz, mode, after) ==
  IF uid = NoUser
    THEN {}
    ELSE {[page |-> page, uid |-> uid, jwt |-> authUid,
           dateStr |-> FormatDay(date, tz), mode |-> mode, after |-> after]}

\* handleSubmit returns: its locals, the estimate among them, are gone
SubmitReturns ==
  /\ sub' = NoSubmit
  /\ foodPc' = "idle"
  /\ foodArg' = ""
  /\ foodResp' = NoFoodResponse
  /\ foodResult' = NoFoodResult
  /\ exPc' = "idle"
  /\ exArgs' = NoExerciseArgs
  /\ exResp' = NoExerciseResponse
  /\ exResult' = NoExerciseResult

\* the handler calls and requests in flight
InFlight ==
  Cardinality(listReqs) + Cardinality(delReqs) + (IF sub.pc = "idle" THEN 0 ELSE 1)

\* a page goes away: what it has in flight keeps running without it
Unmount(reqs) == {[r EXCEPT !.mode = "orphan"] : r \in reqs}

UnmountSubmit(s) == IF s.mode = "live" /\ s.pc # "idle" THEN [s EXCEPT !.mode = "orphan"] ELSE s

(* The user follows a link of Navigation (or types a URL).  The page shown *)
(* before unmounts; a log page or the Dashboard mounts with selectedDate = *)
(* new Date() and empty lists, and its effect fetches that date.           *)
Navigate(path, now) ==
  /\ path # location
  /\ path \in Protected => InFlight < MaxInFlight
  /\ LET target == ProtectedRoute(ctxUser, path)
     IN /\ location' = target
        /\ IF target = location
             THEN UNCHANGED <<pageVars, listReqs, sub, delReqs>>
             ELSE /\ selectedDate' = IF target \in Protected THEN now ELSE 0
                  /\ foodLogs' = {}
                  /\ exerciseLogs' = {}
                  /\ listReqs' =
                       Unmount(listReqs) \cup
                         IF target \in Protected
                           THEN FetchForDate(target, ctxUser, now, tzOffset, "live", "effect")
                           ELSE {}
                  /\ sub' = UnmountSubmit(sub)
                  /\ delReqs' = Unmount(delReqs)
        /\ lastEvent' = IF target = path THEN NoEvent
                                          ELSE Event("redirect", path, FALSE, "none")
  /\ UNCHANGED <<ctxUser, authUid, lsUser, session, profileId, lsProfile, authCalls,
                 tzOffset, storeVars, goalVars, foodVars, exVars>>

(* DatePicker.onDateChange -> setSelectedDate; the effect fetches the date. *)
(* The picker stays usable while requests are in flight; limit bounds how  *)
(* many the model lets a new date join.                                    *)
SelectDate(date, limit) ==
  /\ location \in Protected
  /\ date # selectedDate
  /\ InFlight < limit
  /\ selectedDate' = date
  /\ listReqs' = listReqs \cup FetchForDate(location, ctxUser, date, tzOffset, "live", "effect")
  /\ lastEvent' = NoEvent
  /\ UNCHANGED <<foodLogs, exerciseLogs, authVars, tzOffset, storeVars, sub, delReqs,
                 goalVars, foodVars, exVars>>

\* what localStorage.authProfile holds when it is absent
Absent == ""

(* signIn and signUp: the provider call succeeded with a session, so the   *)
(* Supabase client holds u's session; setSession(data.session),            *)
(* setUser(data.user)                                                      *)
SetSessionAndUser(u) ==
  /\ authUid' = u
  /\ session' = u
  /\ ctxUser' = u

(* setUserProfile(profile) with the row fetchUserProfile returned, id its  *)
(* id, or with null.  Table users accepts no update the Profile form makes *)
(* (UsersAccepts), so a row carries no profile data.                       *)
SetUserProfile(id) ==
  /\ userProfile' = NoProfileFields
  /\ profileId' = id
  /\ goals' = NotComputed

(* localStorage.setItem("authProfile", JSON.stringify(profile)) *)
StoreProfile(id) == lsProfile' = IF id = NoUser THEN "null" ELSE id

(* AuthContext.signIn from call to return on the login page, the provider  *)
(* call and the profile read both succeeding: session, user and profile    *)
(* are set and user and profile written to localStorage                    *)
SignIn(u) ==
  /\ location = "/login"
  /\ SetSessionAndUser(u)
  /\ SetUserProfile(u)
  /\ lsUser' = u
  /\ StoreProfile(u)
  /\ lastEvent' = NoEvent
  /\ UNCHANGED <<location, authCalls, tzOffset, pageVars, storeVars, listReqs, sub,
                 delReqs, profilePc, updates, foodVars, exVars>>

(* signOut after a provider call without error: session, user and profile  *)
(* are cleared and both localStorage keys removed; Navigation.handleSignOut *)
(* then shows "Signed out successfully" and navigates to "/", which        *)
(* unmounts the page                                                       *)
SignedOut ==
  /\ authUid' = NoUser
  /\ session' = NoUser
  /\ ctxUser' = NoUser
  /\ SetUserProfile(NoUser)
  /\ lsUser' = NoUser
  /\ lsProfile' = Absent
  /\ location' = "/"
  /\ selectedDate' = 0
  /\ foodLogs' = {}
  /\ exerciseLogs' = {}
  /\ listReqs' = Unmount(listReqs)
  /\ sub' = UnmountSubmit(sub)
  /\ delReqs' = Unmount(delReqs)
  /\ lastEvent' = Event("signOut", location, FALSE, "default")

\* a signOut that removes the localStorage keys before it looks at the error
SignOutFailed_ClearsStorage ==
  /\ lastEvent' = Event("signOut", location, TRUE, "destructive")
  /\ lsUser' = NoUser
  /\ lsProfile' = Absent
  /\ UNCHANGED <<ctxUser, authUid, location, session, profileId,
                 pageVars, listReqs, sub, delReqs, userProfile, goals>>

(* signOut after a provider error or exception: { error } is returned with *)
(* nothing changed, and Navigation.handleSignOut shows the destructive     *)
(* toast                                                                   *)
SignOutFailed ==
  /\ lastEvent' = Event("signOut", location, TRUE, "destructive")
  /\ UNCHANGED <<ctxUser, authUid, lsUser, location, session, profileId, lsProfile,
                 pageVars, listReqs, sub, delReqs, userProfile, goals>>

(* signIn(email, password) and signUp(email, password, fullName) up to the *)
(* await of the provider call, from the login page.  limit bounds the      *)
(* calls of AuthContext functions in flight.                               *)
SignInCall(op, u, limit) ==
  /\ location = "/login"
  /\ Cardinality(authCalls) < limit
  /\ authCalls' = authCalls \cup
       {[op |-> op, pc |-> "awaitAuth", uid |-> u, jwt |-> NoUser]}
  /\ lastEvent' = NoEvent
  /\ UNCHANGED <<ctxUser, authUid, lsUser, location, session, profileId, lsProfile,
                 tzOffset, pageVars, storeVars, listReqs, sub, delReqs,
                 goalVars, foodVars, exVars>>

(* the provider call of signIn or signUp settles.  An error result and an  *)
(* exception both return { error }; a signUp that brings no session (the   *)
(* address is to be confirmed first) returns { error: null }; otherwise    *)
(* session and user are set and fetchUserProfile is awaited.  A mounted    *)
(* page's effect depends on user and fetches again when it changes.        *)
SignInAuthSettle(call, outcome) ==
  /\ call \in authCalls
  /\ call.op \in {"signIn", "signUp"}
  /\ call.pc = "awaitAuth"
  /\ outcome = "noSession" => call.op = "signUp"
  /\ IF outcome = "ok"
       THEN /\ SetSessionAndUser(call.uid)
            /\ authCalls' = (authCalls \ {call}) \cup
                 {[call EXCEPT !.pc = "awaitProfile", !.jwt = call.uid]}
            /\ listReqs' = listReqs \cup
                 IF location \in Protected /\ call.uid # ctxUser
                   THEN {[page |-> location, uid |-> call.uid, jwt |-> call.uid,
                          dateStr |-> FormatDay(selectedDate, tzOffset),
                          mode |-> "live", after |-> "effect"]}
                   ELSE {}
            /\ UNCHANGED lastEvent
       ELSE /\ authCalls' = authCalls \ {call}
            /\ lastEvent' = Event(call.op, location, outcome # "noSession", "none")
            /\ UNCHANGED <<ctxUser, authUid, session, listReqs>>
  /\ UNCHANGED <<lsUser, location, profileId, lsProfile, tzOffset, pageVars, storeVars,
                 sub, delReqs, goalVars, foodVars, exVars>>

\* the row a profile read gives: the caller's own row, null on an error, an
\* exception or a row the policy hides
ProfileRead(call, outcome) ==
  IF outcome = "ok" /\ UsersPolicy(call.jwt, call.uid) THEN call.uid ELSE NoUser

(* fetchUserProfile returns to signIn or signUp: setUserProfile(profile),  *)
(* both localStorage keys are written, { error: null } is returned         *)
SignInProfileSettle(call, outcome) ==
  /\ call \in authCalls
  /\ call.op \in {"signIn", "signUp"}
  /\ call.pc = "awaitProfile"
  /\ SetUserProfile(ProfileRead(call, outcome))
  /\ lsUser' = call.uid
  /\ StoreProfile(ProfileRead(call, outcome))
  /\ authCalls' = authCalls \ {call}
  /\ lastEvent' = Event(call.op, location, FALSE, "none")
  /\ UNCHANGED <<ctxUser, authUid, session, location, tzOffset, pageVars, storeVars,
                 listReqs, sub, delReqs, profilePc, updates, foodVars, exVars>>

(* Navigation.handleSignOut -> AuthContext.signOut up to the await of the  *)
(* provider call                                                           *)
SignOutCall(limit) ==
  /\ location \in Protected
  /\ ctxUser # NoUser
  /\ Cardinality(authCalls) < limit
  /\ authCalls' = authCalls \cup
       {[op |-> "signOut", pc |-> "awaitAuth", uid |-> ctxUser, jwt |-> authUid]}
  /\ lastEvent' = NoEvent
  /\ UNCHANGED <<ctxUser, authUid, lsUser, location, session, profileId, lsProfile,
                 tzOffset, pageVars, storeVars, listReqs, sub, delReqs,
                 goalVars, foodVars, exVars>>

(* the provider call of signOut settles and handleSignOut runs on *)
SignOutSettle(call, outcome) ==
  /\ call \in authCalls
  /\ call.op = "signOut"
  /\ authCalls' = authCalls \ {call}
  /\ IF outcome = "ok" THEN SignedOut ELSE SignOutFailed
  /\ UNCHANGED <<tzOffset, storeVars, profilePc, updates, foodVars, exVars>>

(* refreshProfile up to `await fetchUserProfile(user.id)`; without a user  *)
(* it does nothing                                                         *)
RefreshProfileCall(limit) ==
  /\ ctxUser # NoUser
  /\ Cardinality(authCalls) < limit
  /\ authCalls' = authCalls \cup
       {[op |-> "refreshProfile", pc |-> "awaitProfile", uid |-> ctxUser, jwt |-> authUid]}
  /\ lastEvent' = NoEvent
  /\ UNCHANGED <<ctxUser, authUid, lsUser, location, session, profileId, lsProfile,
                 tzOffset, pageVars, storeVars, listReqs, sub, delReqs,
                 goalVars, foodVars, exVars>>

(* fetchUserProfile returns to refreshProfile: setUserProfile(profile) and *)
(* localStorage.setItem("authProfile", ...)                                *)
RefreshProfileSettle(call, outcome) ==
  /\ call \in authCalls
  /\ call.op = "refreshProfile"
  /\ SetUserProfile(ProfileRead(call, outcome))
  /\ StoreProfile(ProfileRead(call, outcome))
  /\ authCalls' = authCalls \ {call}
  /\ lastEvent' = Event(call.op, location, FALSE, "none")
  /\ UNCHANGED <<ctxUser, authUid, lsUser, session, location, tzOffset, pageVars,
                 storeVars, listReqs, sub, delReqs, profilePc, updates, foodVars, exVars>>

(* Navigation.handleSignOut -> AuthContext.signOut, from call to return *)
SignOut(ok) ==
  /\ location \in Protected
  /\ ctxUser # NoUser
  /\ IF ok THEN SignedOut ELSE SignOutFailed
  /\ UNCHANGED <<authCalls, tzOffset, storeVars, profilePc, updates, foodVars, exVars>>

(* Profile.handleSubmit up to `await updateProfile(updates)`.  The selects *)
(* start from the stored profile's values (the useEffect on userProfile),  *)
(* so a stored level or goal is selectable next to the listed options.     *)
ProfileHandleSubmit(age, gender, height, weight, activityLevel, fitnessGoal) ==
  /\ profilePc = "idle"
  /\ updates' = [age |-> age, gender |-> gender, height |-> height, weight |-> weight,
                 activity_level |-> activityLevel, fitness_goal |-> fitnessGoal,
                 daily_calorie_goal |->
                   FormDailyCalorieGoal(gender, age, height, weight,
                                        activityLevel, fitnessGoal)]
  /\ profilePc' = "awaitUpdate"
  /\ authCalls' = authCalls \cup
       {[op |-> "updateProfile", pc |-> "awaitUpdate", uid |-> ctxUser, jwt |-> authUid]}
  /\ UNCHANGED <<userProfile, goals, foodVars, exVars, ctxUser, authUid, lsUser, location,
                 session, profileId, lsProfile, tzOffset, pageVars, storeVars, reqVars>>

(* AuthContext.updateProfile settles.  Without a user it returns an error  *)
(* at once.  The update is made when the request comes back without error, *)
(* the policy lets the caller update the row and the table accepts the     *)
(* values; then the returned row becomes userProfile (and NutrientGoals    *)
(* re-renders) and is written to localStorage.  Otherwise { error } is     *)
(* returned and nothing is stored.                                         *)
UpdateProfileSettle(ok) ==
  /\ profilePc = "awaitUpdate"
  /\ \E call \in authCalls :
       /\ call.op = "updateProfile"
       /\ authCalls' = authCalls \ {call}
       /\ IF /\ ok
             /\ call.uid # NoUser
             /\ UsersPolicy(call.jwt, call.uid)
             /\ UsersAccepts(updates)
            THEN /\ userProfile' = updates
                 /\ profileId' = call.uid
                 /\ lsProfile' = call.uid
                 /\ goals' = NotComputed
            ELSE UNCHANGED <<userProfile, profileId, lsProfile, goals>>
  /\ updates' = NoUpdates
  /\ profilePc' = "idle"
  /\ UNCHANGED <<foodVars, exVars, ctxUser, authUid, lsUser, location, session,
                 tzOffset, pageVars, storeVars, reqVars>>

(* The client loses its session while the page stays open (the token       *)
(* expires and cannot be refreshed, or the session is revoked elsewhere).  *)
(* AuthContext does not subscribe to auth changes: user stays as it is.    *)
SessionLost ==
  /\ authUid # NoUser
  /\ authUid' = NoUser
  /\ UNCHANGED <<ctxUser, lsUser, location, session, profileId, lsProfile, authCalls,
                 tzOffset, pageVars, storeVars, reqVars, goalVars, foodVars, exVars>>

(* the totals the pages render: foodLogs.reduce((sum, log) => sum +       *)
(* log.calories, 0) and exerciseLogs.reduce((sum, log) => sum +            *)
(* log.calories_burned, 0)                                                 *)
RECURSIVE FoodTotal(_)
FoodTotal(logs) ==
  IF logs = {}
    THEN 0
    ELSE LET log == CHOOSE l \in logs : TRUE
         IN log.calories.n + FoodTotal(logs \ {log})

RECURSIVE ExerciseTotal(_)
ExerciseTotal(logs) ==
  IF logs = {}
    THEN 0
    ELSE LET log == CHOOSE l \in logs : TRUE
         IN log.calories_burned.n + ExerciseTotal(logs \ {log})

(* Dashboard: dailyGoal = userProfile?.daily_calorie_goal || 2000, the     *)
(* totals, netCalories = consumed - burned                                 *)
DailyGoal ==
  IF userProfile.daily_calorie_goal # 0 THEN userProfile.daily_calorie_goal ELSE 2000

Consumed == FoodTotal(foodLogs)
Burned == ExerciseTotal(exerciseLogs)
NetCalories == Consumed - Burned

(* Dashboard: progressPercentage = Math.min((netCalories / dailyGoal) *    *)
(* 100, 100), as the exact fraction num / den with den > 0                 *)
ProgressPercentage ==
  LET den == IF DailyGoal < 0 THEN -DailyGoal ELSE DailyGoal
      num == IF DailyGoal < 0 THEN -(NetCalories * 100) ELSE NetCalories * 100
  IN [num |-> IF num <= 100 * den THEN num ELSE 100 * den, den |-> den]

(* The document is reloaded.  Every handler and page state is gone; a      *)
(* request already sent can still reach the store.  On the first render    *)
(* user is null, so a protected route navigates to /login; AuthProvider's  *)
(* mount effect then restores user and profile from localStorage.  The     *)
(* Supabase client keeps its own session.                                  *)
Reload ==
  /\ ctxUser' = lsUser
  /\ location' = ProtectedRoute(NoUser, location)
  /\ selectedDate' = 0
  /\ foodLogs' = {}
  /\ exerciseLogs' = {}
  /\ listReqs' = {}
  /\ IF sub.pc = "awaitInsert"
       THEN /\ sub' = [sub EXCEPT !.mode = "dead"]
            /\ UNCHANGED <<foodVars, exVars>>
       ELSE SubmitReturns
  /\ delReqs' = {[r EXCEPT !.mode = "dead"] : r \in delReqs}
  /\ lastEvent' = IF location \in Protected
                    THEN Event("redirect", location, FALSE, "none")
                    ELSE NoEvent
  /\ session' = NoUser
  /\ SetUserProfile(IF lsProfile \in Users THEN lsProfile ELSE NoUser)
  /\ authCalls' = {}
  /\ profilePc' = "idle"
  /\ updates' = NoUpdates
  /\ UNCHANGED <<authUid, lsUser, lsProfile, tzOffset, storeVars>>

----------------------------------------------------------------------------
(* The list requests of the three pages *)

\* what the handler of a settled list request leaves in flight
AfterFetch(req) ==
  /\ listReqs' = listReqs \ {req}
  /\ IF req.after = "submit" THEN SubmitReturns ELSE UNCHANGED <<sub, foodVars, exVars>>

(* FoodLog.fetchFoodLogsForDate from its await on: an error result shows a *)
(* destructive toast, a thrown exception is only logged to the console,    *)
(* data goes to setFoodLogs                                                *)
FetchFoodLogsSettle(req, outcome) ==
  /\ req \in listReqs
  /\ req.page = "/food-log"
  /\ AfterFetch(req)
  /\ foodLogs' = IF outcome = "ok" /\ req.mode = "live"
                   THEN ListRows(food_logs, req.jwt, req.uid, req.dateStr)
                   ELSE foodLogs
  /\ lastEvent' = CASE outcome = "ok" -> Event("list", req.page, FALSE, "none")
                    [] outcome = "error" -> Event("list", req.page, TRUE, "destructive")
                    [] outcome = "throw" -> Event("list", req.page, TRUE, "none")
  /\ UNCHANGED <<selectedDate, exerciseLogs, authVars, tzOffset, storeVars, delReqs,
                 goalVars>>

(* ExerciseLog.fetchExerciseLogsForDate from its await on *)
FetchExerciseLogsSettle(req, outcome) ==
  /\ req \in listReqs
  /\ req.page = "/exercise-log"
  /\ AfterFetch(req)
  /\ exerciseLogs' = IF outcome = "ok" /\ req.mode = "live"
                       THEN ListRows(exercise_logs, req.jwt, req.uid, req.dateStr)
                       ELSE exerciseLogs
  /\ lastEvent' = CASE outcome = "ok" -> Event("list", req.page, FALSE, "none")
                    [] outcome = "error" -> Event("list", req.page, TRUE, "destructive")
                    [] outcome = "throw" -> Event("list", req.page, TRUE, "none")
  /\ UNCHANGED <<selectedDate, foodLogs, authVars, tzOffset, storeVars, delReqs,
                 goalVars>>

(* Dashboard.fetchDataForDate from its awaits on: both lists are read; an  *)
(* error result of either and a thrown exception are only logged to the    *)
(* console                                                                 *)
FetchDataSettle(req, outcome) ==
  /\ req \in listReqs
  /\ req.page = "/dashboard"
  /\ AfterFetch(req)
  /\ IF outcome = "ok" /\ req.mode = "live"
       THEN /\ foodLogs' = ListRows(food_logs, req.jwt, req.uid, req.dateStr)
            /\ exerciseLogs' = ListRows(exercise_logs, req.jwt, req.uid, req.dateStr)
       ELSE UNCHANGED <<foodLogs, exerciseLogs>>
  /\ lastEvent' = Event("list", req.page, outcome # "ok", "none")
  /\ UNCHANGED <<selectedDate, authVars, tzOffset, storeVars, delReqs, goalVars>>

----------------------------------------------------------------------------
(* FoodLog.handleSubmit and ExerciseLog.handleSubmit *)

\* the estimator answers the log pages' submits are checked with: a failure,
\* an answer with every field in place, one without the breakdown list, and
\* answers with a negative amount
LogFoodBody ==
  [calories |-> Num(1), protein |-> Num(1), carbs |-> Num(1), fat |-> Num(1),
   confidence |-> Num(1), breakdown |-> Arr("breakdown")]

LogFoodResponses ==
  {[kind |-> "error", body |-> NoFoodBody]}
    \cup {[kind |-> "json", body |-> b] :
            b \in {LogFoodBody,
                   [LogFoodBody EXCEPT !.breakdown = Undefined],
                   [LogFoodBody EXCEPT !.fat = Num(-1)]}}

LogExerciseBody ==
  [caloriesBurned |-> Num(1), exerciseType |-> Str("cardio"),
   intensity |-> Str("moderate"), confidence |-> Num(1),
   breakdown |-> Arr("breakdown")]

LogExerciseResponses ==
  {[kind |-> "error", body |-> NoExerciseBody]}
    \cup {[kind |-> "json", body |-> b] :
            b \in {LogExerciseBody,
                   [LogExerciseBody EXCEPT !.breakdown = Undefined],
                   [LogExerciseBody EXCEPT !.caloriesBurned = Num(-1)]}}

\* what the duration input (type number, min 1, not required) can hold at a
\* submit, and `duration ? parseInt(duration) : undefined`
FormDurations == {"", "45"}

DurationNum(duration) ==
  CASE duration = "" -> Undefined
    [] duration = "45" -> Num(45)

(* the object FoodLog.handleSubmit inserts *)
FoodPayload(s, analysis) ==
  [user_id |-> s.uid, created_at |-> s.date,
   calories |-> analysis.calories, protein |-> analysis.protein,
   carbs |-> analysis.carbs, fat |-> analysis.fat]

(* the object ExerciseLog.handleSubmit inserts: duration_minutes is        *)
(* `durationNum || 30`                                                     *)
ExercisePayload(s, analysis) ==
  [user_id |-> s.uid, created_at |-> s.date,
   exercise_type |-> analysis.exerciseType,
   duration_minutes |-> IF Truthy(s.duration) THEN s.duration ELSE Num(30),
   intensity |-> analysis.intensity,
   calories_burned |-> analysis.caloriesBurned]

\* the row the store keeps for an accepted insert
StoredRow(id, payload) == [id |-> id] @@ payload

(* FoodLog.handleSubmit up to `await analyzeFoodDescription`.  The submit  *)
(* button is disabled while isLoading.                                     *)
FoodLogHandleSubmit(description) ==
  /\ location = "/food-log"
  /\ ctxUser # NoUser
  /\ sub.pc = "idle"
  /\ InFlight < MaxInFlight
  /\ nextId < MaxEntries
  /\ AnalyzeFoodCall(description)
  /\ sub' = [pc |-> "awaitAnalysis", page |-> location, uid |-> ctxUser,
             date |-> selectedDate, duration |-> Undefined, jwt |-> NoUser,
             mode |-> "live"]
  /\ lastEvent' = NoEvent
  /\ UNCHANGED <<authVars, tzOffset, pageVars, storeVars, listReqs, delReqs,
                 goalVars, exVars>>

(* the estimator returns and handleSubmit runs on to `await insert`:       *)
(* analysis.breakdown.join throws on a missing list, which the catch block *)
(* turns into the destructive toast; otherwise the insert leaves with the  *)
(* client's session                                                        *)
FoodLogAnalysisSettle(resp) ==
  /\ sub.pc = "awaitAnalysis"
  /\ sub.page = "/food-log"
  /\ foodPc = "awaitService"
  /\ IF FoodSettle(resp).result.value.breakdown.t # "object"
       THEN /\ SubmitReturns
            /\ lastEvent' = Event("submit", sub.page, TRUE, "destructive")
       ELSE /\ AnalyzeFoodReturn(resp)
            /\ sub' = [sub EXCEPT !.pc = "awaitInsert", !.jwt = authUid]
            /\ UNCHANGED <<foodArg, exVars, lastEvent>>
  /\ UNCHANGED <<authVars, tzOffset, pageVars, storeVars, listReqs, delReqs, goalVars>>

\* what a settled insert does besides the store's part: on success the
\* success toast and the refresh of the submitted date, on failure the
\* destructive toast; a reloaded document does neither
AfterInsert(inserted) ==
  IF sub.mode = "dead"
    THEN /\ SubmitReturns
         /\ UNCHANGED <<listReqs, lastEvent>>
    ELSE IF inserted
      THEN /\ listReqs' = listReqs \cup
                FetchForDate(sub.page, sub.uid, sub.date, tzOffset, sub.mode, "submit")
           /\ sub' = [sub EXCEPT !.pc = "awaitRefresh"]
           /\ lastEvent' = Event("insert", sub.page, FALSE, "default")
           /\ UNCHANGED <<foodVars, exVars>>
      ELSE /\ SubmitReturns
           /\ lastEvent' = Event("insert", sub.page, TRUE, "destructive")
           /\ UNCHANGED listReqs

(* the insert into food_logs settles and FoodLog.handleSubmit runs on *)
FoodLogInsertSettle(outcome) ==
  /\ sub.pc = "awaitInsert"
  /\ sub.page = "/food-log"
  /\ LET payload == FoodPayload(sub, foodResult.value)
         inserted == /\ outcome = "ok"
                     /\ InsertPolicy(sub.jwt, payload)
                     /\ FoodChecks(payload)
     IN /\ IF inserted
             THEN /\ food_logs' = food_logs \cup {StoredRow(nextId + 1, payload)}
                  /\ nextId' = nextId + 1
             ELSE UNCHANGED <<food_logs, nextId>>
        /\ AfterInsert(inserted)
  /\ UNCHANGED <<exercise_logs, authVars, tzOffset, pageVars, delReqs, goalVars>>

(* ExerciseLog.handleSubmit up to `await analyzeExerciseDescription` *)
ExerciseLogHandleSubmit(description, duration) ==
  /\ location = "/exercise-log"
  /\ ctxUser # NoUser
  /\ sub.pc = "idle"
  /\ InFlight < MaxInFlight
  /\ nextId < MaxEntries
  /\ AnalyzeExerciseCall([description |-> description,
                          duration |-> DurationNum(duration),
                          userWeight |-> IF userProfile.weight = 0
                                           THEN Undefined
                                           ELSE Num(userProfile.weight)])
  /\ sub' = [pc |-> "awaitAnalysis", page |-> location, uid |-> ctxUser,
             date |-> selectedDate, duration |-> DurationNum(duration),
             jwt |-> NoUser, mode |-> "live"]
  /\ lastEvent' = NoEvent
  /\ UNCHANGED <<authVars, tzOffset, pageVars, storeVars, listReqs, delReqs,
                 goalVars, foodVars>>

(* the estimator returns and ExerciseLog.handleSubmit runs on to its insert *)
ExerciseLogAnalysisSettle(resp) ==
  /\ sub.pc = "awaitAnalysis"
  /\ sub.page = "/exercise-log"
  /\ exPc = "awaitService"
  /\ IF ExerciseSettle(exArgs, resp).result.value.breakdown.t # "object"
       THEN /\ SubmitReturns
            /\ lastEvent' = Event("submit", sub.page, TRUE, "destructive")
       ELSE /\ AnalyzeExerciseReturn(resp)
            /\ sub' = [sub EXCEPT !.pc = "awaitInsert", !.jwt = authUid]
            /\ UNCHANGED <<exArgs, foodVars, lastEvent>>
  /\ UNCHANGED <<authVars, tzOffset, pageVars, storeVars, listReqs, delReqs, goalVars>>

(* the insert into exercise_logs settles and ExerciseLog.handleSubmit runs on *)
ExerciseLogInsertSettle(outcome) ==
  /\ sub.pc = "awaitInsert"
  /\ sub.page = "/exercise-log"
  /\ LET payload == ExercisePayload(sub, exResult.value)
         inserted == /\ outcome = "ok"
                     /\ InsertPolicy(sub.jwt, payload)
                     /\ ExerciseChecks(payload)
     IN /\ IF inserted
             THEN /\ exercise_logs' = exercise_logs \cup {StoredRow(nextId + 1, payload)}
                  /\ nextId' = nextId + 1
             ELSE UNCHANGED <<exercise_logs, nextId>>
        /\ AfterInsert(inserted)
  /\ UNCHANGED <<food_logs, authVars, tzOffset, pageVars, delReqs, goalVars>>

----------------------------------------------------------------------------
(* FoodLog.handleDeleteLog and ExerciseLog.handleDeleteLog *)

(* handleDeleteLog(logId) up to `await delete`, from the delete button of  *)
(* a listed entry                                                          *)
HandleDeleteLog(logId) ==
  /\ InFlight < MaxInFlight
  /\ delReqs' = delReqs \cup
       {[page |-> location, id |-> logId, uid |-> ctxUser, jwt |-> authUid,
         date |-> selectedDate, mode |-> "live"]}
  /\ lastEvent' = NoEvent
  /\ UNCHANGED <<authVars, tzOffset, pageVars, storeVars, listReqs, sub,
                 goalVars, foodVars, exVars>>

FoodLogHandleDeleteLog(logId) ==
  /\ location = "/food-log"
  /\ logId \in {row.id : row \in foodLogs}
  /\ HandleDeleteLog(logId)

ExerciseLogHandleDeleteLog(logId) ==
  /\ location = "/exercise-log"
  /\ logId \in {row.id : row \in exerciseLogs}
  /\ HandleDeleteLog(logId)

\* what a settled delete does besides the store's part: on an error the
\* destructive toast, otherwise the refresh of the selected date and the
\* "deleted" toast; a reloaded document does neither
AfterDelete(req, outcome) ==
  /\ delReqs' = delReqs \ {req}
  /\ IF req.mode = "dead"
       THEN UNCHANGED <<listReqs, lastEvent>>
       ELSE IF outcome = "ok"
         THEN /\ listReqs' = listReqs \cup
                   FetchForDate(req.page, req.uid, req.date, tzOffset, req.mode, "delete")
              /\ lastEvent' = Event("delete", req.page, FALSE, "default")
         ELSE /\ lastEvent' = Event("delete", req.page, TRUE, "destructive")
              /\ UNCHANGED listReqs

(* the delete from food_logs settles and FoodLog.handleDeleteLog runs on *)
FoodLogDeleteSettle(req, outcome) ==
  /\ req \in delReqs
  /\ req.page = "/food-log"
  /\ food_logs' = IF outcome = "ok" THEN DeleteRows(food_logs, req.jwt, req.id)
                                    ELSE food_logs
  /\ AfterDelete(req, outcome)
  /\ UNCHANGED <<exercise_logs, nextId, authVars, tzOffset, pageVars, sub,
                 goalVars, foodVars, exVars>>

(* the delete from exercise_logs settles and ExerciseLog.handleDeleteLog runs on *)
ExerciseLogDeleteSettle(req, outcome) ==
  /\ req \in delReqs
  /\ req.page = "/exercise-log"
  /\ exercise_logs' = IF outcome = "ok" THEN DeleteRows(exercise_logs, req.jwt, req.id)
                                        ELSE exercise_logs
  /\ AfterDelete(req, outcome)
  /\ UNCHANGED <<food_logs, nextId, authVars, tzOffset, pageVars, sub,
                 goalVars, foodVars, exVars>>

----------------------------------------------------------------------------
(* Specifications *)

\* nobody is signed in, the landing page shows, the tables are empty; the
\* browser is in one of the given time zones
InitAppIn(zones) ==
  /\ ctxUser = NoUser
  /\ authUid = NoUser
  /\ lsUser = NoUser
  /\ session = NoUser
  /\ profileId = NoUser
  /\ lsProfile = Absent
  /\ authCalls = {}
  /\ location = "/"
  /\ tzOffset \in zones
  /\ selectedDate = 0
  /\ foodLogs = {}
  /\ exerciseLogs = {}
  /\ food_logs = {}
  /\ exercise_logs = {}
  /\ nextId = 0
  /\ listReqs = {}
  /\ sub = NoSubmit
  /\ delReqs = {}
  /\ lastEvent = NoEvent

InitEstimators ==
  /\ foodPc = "idle"
  /\ foodArg = ""
  /\ foodResp = NoFoodResponse
  /\ foodResult = NoFoodResult
  /\ exPc = "idle"
  /\ exArgs = NoExerciseArgs
  /\ exResp = NoExerciseResponse
  /\ exResult = NoExerciseResult

InitGoals ==
  /\ userProfile \in ProfileInputs
  /\ goals = NotComputed
  /\ profilePc = "idle"
  /\ updates = NoUpdates
  /\ InitEstimators
  /\ InitAppIn(TzOffsets)

\* the profiles that differ from u in at most one field
OneFieldChanges(u) ==
  {[u EXCEPT !.age = a] : a \in Ages \cup {0}}
    \cup {[u EXCEPT !.gender = g] : g \in GenderOptions \cup {""}}
    \cup {[u EXCEPT !.height = h] : h \in Heights \cup {0}}
    \cup {[u EXCEPT !.weight = w] : w \in Weights \cup {0}}
    \cup {[u EXCEPT !.activity_level = l] :
             l \in ActivityOptions \cup UserActivityLevels \cup {""}}
    \cup {[u EXCEPT !.fitness_goal = f] : f \in GoalOptions \cup {""}}

NextGoals ==
  \/ \E p \in OneFieldChanges(userProfile) : LoadProfile(p)
  \/ RenderNutrientGoals

SpecGoals == InitGoals /\ [][NextGoals]_vars

InitProfile ==
  /\ userProfile = NoProfileFields
  /\ goals = NotComputed
  /\ profilePc = "idle"
  /\ updates = NoUpdates
  /\ InitEstimators
  /\ InitAppIn(TzOffsets)

\* as InitProfile, in a browser on UTC or on UTC+2
InitZones ==
  /\ userProfile = NoProfileFields
  /\ goals = NotComputed
  /\ profilePc = "idle"
  /\ updates = NoUpdates
  /\ InitEstimators
  /\ InitAppIn({0, -120})

NextProfile ==
  \/ \E body \in FormBodies, gender \in GenderOptions,
        activityLevel \in ActivityOptions \cup ({userProfile.activity_level} \ {""}),
        fitnessGoal \in GoalOptions \cup ({userProfile.fitness_goal} \ {""}) :
        ProfileHandleSubmit(body.age, gender, body.height, body.weight,
                            activityLevel, fitnessGoal)
  \/ \E ok \in BOOLEAN : UpdateProfileSettle(ok)
  \/ RenderNutrientGoals

SpecProfile == InitProfile /\ [][NextProfile]_vars

\* the food estimator alone
NextFood ==
  \/ \E description \in Descriptions : AnalyzeFoodStart(description)
  \/ /\ foodPc = "awaitService"
     /\ \E resp \in FoodResponses : AnalyzeFoodSettle(resp)

SpecFood == InitProfile /\ [][NextFood]_vars

\* the exercise estimator alone
NextExercise ==
  \/ \E args \in ExerciseArgs : AnalyzeExerciseStart(args)
  \/ /\ exPc = "awaitService"
     /\ \E resp \in ExerciseResponses : AnalyzeExerciseSettle(resp)

SpecExercise == InitProfile /\ [][NextExercise]_vars

\* what the food and the exercise page are submitted with
FoodDescription == "2 eggs"
ExerciseDescription == "5k run"

\* sign-in, sign-out, reload, loss of the session, navigation among the
\* given routes, the date picker, and the Dashboard
NextSession(paths, limit) ==
  \/ \E path \in paths :
       \E now \in (IF path \in Protected THEN ClockInstants ELSE {0}) :
         Navigate(path, now)
  \/ \E date \in PickedInstants(tzOffset) : SelectDate(date, limit)
  \/ \E u \in Users : SignIn(u)
  \/ \E ok \in BOOLEAN : SignOut(ok)
  \/ SessionLost
  \/ Reload
  \/ \E req \in listReqs, outcome \in Outcomes : FetchDataSettle(req, outcome)

\* the FoodLog page and the Dashboard over table food_logs
FoodLogSteps ==
  \/ \E req \in listReqs, outcome \in Outcomes : FetchFoodLogsSettle(req, outcome)
  \/ FoodLogHandleSubmit(FoodDescription)
  \/ \E resp \in LogFoodResponses : FoodLogAnalysisSettle(resp)
  \/ \E outcome \in Outcomes : FoodLogInsertSettle(outcome)
  \/ \E logId \in 1 .. MaxEntries : FoodLogHandleDeleteLog(logId)
  \/ \E req \in delReqs, outcome \in Outcomes : FoodLogDeleteSettle(req, outcome)

NextFoodLog == NextSession(Locations \ {"/exercise-log"}, MaxInFlight) \/ FoodLogSteps

SpecFoodLog == InitProfile /\ [][NextFoodLog]_vars

\* the same page in browsers of several time zones
SpecFoodZones == InitZones /\ [][NextFoodLog]_vars

\* the same page with a date picked while a request is in flight
SpecFoodDates ==
  /\ InitProfile
  /\ [][NextSession(Locations \ {"/exercise-log"}, MaxOverlap) \/ FoodLogSteps]_vars

\* the ExerciseLog page and the Dashboard over table exercise_logs
NextExerciseLog ==
  \/ NextSession(Locations \ {"/food-log"}, MaxInFlight)
  \/ \E req \in listReqs, outcome \in Outcomes : FetchExerciseLogsSettle(req, outcome)
  \/ \E duration \in FormDurations :
       ExerciseLogHandleSubmit(ExerciseDescription, duration)
  \/ \E resp \in LogExerciseResponses : ExerciseLogAnalysisSettle(resp)
  \/ \E outcome \in Outcomes : ExerciseLogInsertSettle(outcome)
  \/ \E logId \in 1 .. MaxEntries : ExerciseLogHandleDeleteLog(logId)
  \/ \E req \in delReqs, outcome \in Outcomes : ExerciseLogDeleteSettle(req, outcome)

SpecExerciseLog == InitProfile /\ [][NextExerciseLog]_vars

\* the functions of AuthContext with their awaits as steps of their own, up to
\* MaxOverlap calls in flight together, among the landing page, the login
\* page and the Dashboard; a link is followed once the lists have loaded
NextAuth ==
  \/ /\ listReqs = {}
     /\ \E path \in {"/", "/login", "/dashboard"} : Navigate(path, 0)
  \/ \E op \in {"signIn", "signUp"}, u \in Users : SignInCall(op, u, MaxOverlap)
  \/ \E call \in authCalls, outcome \in Outcomes \cup {"noSession"} :
       SignInAuthSettle(call, outcome)
  \/ \E call \in authCalls, outcome \in Outcomes : SignInProfileSettle(call, outcome)
  \/ SignOutCall(MaxOverlap)
  \/ \E call \in authCalls, outcome \in Outcomes : SignOutSettle(call, outcome)
  \/ RefreshProfileCall(MaxOverlap)
  \/ \E call \in authCalls, outcome \in Outcomes : RefreshProfileSettle(call, outcome)
  \/ /\ Cardinality(authCalls) < MaxOverlap
     /\ ProfileHandleSubmit(25, "male", 180, 80, "moderate", "lose_weight")
  \/ \E ok \in BOOLEAN : UpdateProfileSettle(ok)
  \/ Reload
  \/ \E req \in listReqs, outcome \in Outcomes : FetchDataSettle(req, outcome)

SpecAuth == InitProfile /\ [][NextAuth]_vars

\* every operation, from a signed-up user without profile data.  The state
\* space of Spec is close to the product of those of its components; the
\* properties below are checked under the component specifications.
Init == InitProfile

Next ==
  NextProfile \/ NextFood \/ NextExercise \/ NextFoodLog \/ NextExerciseLog \/ NextAuth

Spec == Init /\ [][Next]_vars

----------------------------------------------------------------------------
(* Properties of the goal calculator *)

\* all six inputs are present
Complete(u) ==
  /\ u.age # 0 /\ u.gender # "" /\ u.height # 0
  /\ u.weight # 0 /\ u.activity_level # "" /\ u.fitness_goal # ""

\* Mifflin-St Jeor as the specification writes it, times 4
StatedBmr4(u) ==
  IF u.gender = "male"
    THEN 4 * (10 * u.weight - 5 * u.age + 5) + 25 * u.height
    ELSE 4 * (10 * u.weight - 5 * u.age - 161) + 25 * u.height

StatedAdjustment(fitness_goal) ==
  IF fitness_goal = "lose_weight" THEN -500
  ELSE IF fitness_goal = "gain_weight" \/ fitness_goal = "build_muscle" THEN 500
  ELSE 0

\* the multiplier table of the specification, times 1000
StatedMultiplier1000(level) ==
  IF level = "light" THEN 1375
  ELSE IF level = "moderate" THEN 1550
  ELSE IF level = "active" \/ level = "high" THEN 1725
  ELSE IF level = "very_active" THEN 1900
  ELSE 1200

\* r is num/den rounded to the nearest integer, an exact half going up
NearestHalfUp(r, num, den) ==
  /\ 2 * den * r - den <= 2 * num
  /\ 2 * num < 2 * den * r + den

\* floor((2 num + den) / (2 den)) for den > 0, written with a remainder
FloorHalfUp(num, den) == ((2 * num + den) - ((2 * num + den) % (2 * den))) \div (2 * den)

\* C1: for a complete profile the returned tdee is round(BMR x multiplier),
\* minus 500 for lose_weight, plus 500 for gain_weight and build_muscle and
\* unchanged for any other goal; BMR adds 5 for "male" and subtracts 161 for
\* every other gender.  The multiplier is the one the function applies.
C1_TdeeFormula ==
  (goals.computed /\ Complete(userProfile)) =>
    goals.value.tdee =
      FloorHalfUp(StatedBmr4(userProfile)
                    * ActivityMultiplier1000(userProfile.activity_level), 4000)
        + StatedAdjustment(userProfile.fitness_goal)

C1_Witness ==
  /\ goals.computed
  /\ Complete(userProfile)
  /\ userProfile.gender = "other"
  /\ userProfile.fitness_goal = "build_muscle"
  /\ goals.value.tdee > 500

\* C2: whenever one of the six inputs is absent the result is exactly
\* {tdee 0, proteinGoal 0, carbsGoal 0, fatGoal 0}.
C2_ZeroFallback ==
  (goals.computed /\ ~Complete(userProfile)) =>
    goals.value = [tdee |-> 0, proteinGoal |-> 0, carbsGoal |-> 0, fatGoal |-> 0]

C2_Witness ==
  /\ goals.computed
  /\ userProfile.fitness_goal = ""
  /\ userProfile.age # 0 /\ userProfile.gender # "" /\ userProfile.height # 0
  /\ userProfile.weight # 0 /\ userProfile.activity_level # ""
  /\ goals.value.tdee = 0

\* C3: the goal calculation multiplies by 1.2 / 1.375 / 1.55 / 1.725 / 1.9 for
\* sedentary / light / moderate / active and high / very_active, and by 1.2 for
\* any other level, both in calculateNutrientGoals and in the Profile form.
C3_MultiplierTable ==
  /\ (goals.computed /\ Complete(userProfile)) =>
       goals.value.tdee =
         FloorHalfUp(StatedBmr4(userProfile)
                       * StatedMultiplier1000(userProfile.activity_level), 4000)
           + StatedAdjustment(userProfile.fitness_goal)
  /\ (profilePc = "awaitUpdate") =>
       updates.daily_calorie_goal =
         FloorHalfUp(FormBmr4(updates.gender, updates.age, updates.height, updates.weight)
                       * StatedMultiplier1000(updates.activity_level), 4000)
           + StatedAdjustment(updates.fitness_goal)

\* C4: for a complete profile proteinGoal = round(2 x weight), fatGoal =
\* round(0.9 x weight) and carbsGoal = round((T - 4 proteinGoal - 9 fatGoal) / 4)
\* with T the goal-adjusted tdee before its output rounding.
C4_MacroFormulas ==
  (goals.computed /\ Complete(userProfile)) =>
    LET T4000 == StatedBmr4(userProfile)
                   * ActivityMultiplier1000(userProfile.activity_level)
                 + 4000 * StatedAdjustment(userProfile.fitness_goal)
        p == goals.value.proteinGoal
        f == goals.value.fatGoal
    IN /\ p = 2 * userProfile.weight
       /\ f = FloorHalfUp(9 * userProfile.weight, 10)
       /\ goals.value.carbsGoal = FloorHalfUp(T4000 - 4000 * (4 * p + 9 * f), 16000)

\* a profile where rounding tdee first would give another carbsGoal
C4_Witness ==
  /\ goals.computed
  /\ Complete(userProfile)
  /\ goals.value.carbsGoal #
       FloorHalfUp(goals.value.tdee - 4 * goals.value.proteinGoal
                     - 9 * goals.value.fatGoal, 4)

Example1 ==
  [age |-> 25, gender |-> "male", height |-> 180, weight |-> 80,
   activity_level |-> "moderate", fitness_goal |-> "lose_weight",
   daily_calorie_goal |-> 0]
Example2 ==
  [age |-> 30, gender |-> "female", height |-> 165, weight |-> 60,
   activity_level |-> "sedentary", fitness_goal |-> "maintain_weight",
   daily_calorie_goal |-> 0]

\* C5: the two worked examples: (male, 25, 180 cm, 80 kg, moderate, lose_weight)
\* gives tdee 2298, protein 160, fat 72, carbs 252; (female, 30, 165 cm, 60 kg,
\* sedentary, maintain_weight) gives tdee 1584, protein 120, fat 54, carbs 155.
C5_WorkedExamples ==
  goals.computed =>
    /\ userProfile = Example1 =>
         goals.value = [tdee |-> 2298, proteinGoal |-> 160, carbsGoal |-> 252, fatGoal |-> 72]
    /\ userProfile = Example2 =>
         goals.value = [tdee |-> 1584, proteinGoal |-> 120, carbsGoal |-> 155, fatGoal |-> 54]

C5_Witness == goals.computed /\ userProfile = Example2 /\ goals.value.carbsGoal = 155

\* the unrounded quantities behind each rounding of the calculator
RemainingCalories4000(u) ==
  Tdee4000(u) - 4000 * (4 * ProteinGoal(u) + 9 * FatGoal(u))

\* C6 as stated: every rounding (tdee, proteinGoal, fatGoal, carbsGoal) goes to
\* the nearest integer with an exact half rounded away from zero, for negative
\* values as for positive ones.
C6_HalfAwayFromZero ==
  (goals.computed /\ Complete(userProfile)) =>
    /\ goals.value.tdee = MathRound_HalfAway(Tdee4000(userProfile), 4000)
    /\ goals.value.proteinGoal = MathRound_HalfAway(2 * userProfile.weight, 1)
    /\ goals.value.fatGoal = MathRound_HalfAway(9 * userProfile.weight, 10)
    /\ goals.value.carbsGoal =
         MathRound_HalfAway(RemainingCalories4000(userProfile), 16000)

\* C6 amended: every rounding goes to the nearest integer with an exact half
\* rounded towards +infinity: away from zero for a positive value, towards zero
\* for a negative one.
C6_HalfTowardsPlusInfinity ==
  (goals.computed /\ Complete(userProfile)) =>
    /\ NearestHalfUp(goals.value.tdee, Tdee4000(userProfile), 4000)
    /\ NearestHalfUp(goals.value.proteinGoal, 2 * userProfile.weight, 1)
    /\ NearestHalfUp(goals.value.fatGoal, 9 * userProfile.weight, 10)
    /\ NearestHalfUp(goals.value.carbsGoal, RemainingCalories4000(userProfile), 16000)

\* a negative tdee that is an exact half, rounded
C6_Witness ==
  /\ goals.computed
  /\ Complete(userProfile)
  /\ Tdee4000(userProfile) < 0
  /\ Tdee4000(userProfile) % 4000 = 2000
  /\ 2 * goals.value.tdee = (2 * Tdee4000(userProfile) + 4000) \div 4000

----------------------------------------------------------------------------
(* Properties of the estimation wrappers *)

\* C8: analyzeFoodDescription never rejects, and when the call fails, the text
\* holds no JSON object, the JSON does not parse, or one of calories, protein,
\* carbs, fat is not a number, it resolves with calories 300, protein 15,
\* carbs 30, fat 10, confidence 50.
C8_FoodFallback ==
  /\ foodPc # "rejected"
  /\ (foodPc # "idle" /\ foodPc # "awaitService") =>
       ((\/ foodResp.kind \in {"error", "noJson", "badJson"}
         \/ \E f \in {"calories", "protein", "carbs", "fat"} :
              foodResp.body[f].t # "number")
          => /\ foodPc = "resolved"
             /\ foodResult.value.calories = Num(300)
             /\ foodResult.value.protein = Num(15)
             /\ foodResult.value.carbs = Num(30)
             /\ foodResult.value.fat = Num(10)
             /\ foodResult.value.confidence = Num(50))

C8_Witness ==
  /\ foodPc = "resolved"
  /\ foodResp.kind = "json"
  /\ foodResp.body.calories.t = "number"
  /\ foodResp.body.protein.t = "number"
  /\ foodResp.body.carbs.t = "number"
  /\ foodResp.body.fat.t = "string"
  /\ foodResult.value.fat = Num(10)

\* the answers analyzeExerciseDescription does not accept
ExerciseAnswerFails(resp) ==
  \/ resp.kind \in {"error", "noJson", "badJson"}
  \/ resp.body.caloriesBurned.t # "number"
  \/ resp.body.exerciseType \notin {Str(x) : x \in ExerciseTypes}
  \/ resp.body.intensity \notin {Str(x) : x \in Intensities}

C10_ServiceResultsValid ==
  /\ (foodPc = "resolved" /\ foodResult.from = "service") =>
       \A f \in {"calories", "protein", "carbs", "fat", "confidence"} :
         foodResult.value[f].t = "number"
  /\ (exPc = "resolved" /\ exResult.from = "service") =>
       /\ exResult.value.caloriesBurned.t = "number"
       /\ exResult.value.confidence.t = "number"
       /\ exResult.value.exerciseType \in {Str(x) : x \in ExerciseTypes}
       /\ exResult.value.intensity \in {Str(x) : x \in Intensities}

----------------------------------------------------------------------------
(* Properties of the Profile page *)

\* C16: every profile write made through the app stores a daily_calorie_goal
\* equal to the calculator's tdee for the age, gender, height, weight,
\* activity level and fitness goal stored by that same write: the values a
\* write of the Profile form asks the store to keep agree in this way.
C16_GoalMatchesCalculator ==
  profilePc = "awaitUpdate" =>
    updates.daily_calorie_goal = calculateNutrientGoals(updates).tdee

----------------------------------------------------------------------------
(* Properties of the log pages *)

\* C11: an estimation failure or malformed answer never blocks logging: a
\* handleSubmit that awaits the estimator never ends in the error
\* notification without having issued the insert, and when the estimation
\* failed the insert it goes on to carries the fallback estimate.
C11_EstimateNeverBlocks ==
  [][sub.pc = "awaitAnalysis" =>
       /\ lastEvent'.op # "submit"
       /\ (sub'.pc = "awaitInsert" /\ sub.page = "/food-log" /\ foodResp'.kind # "json") =>
            FoodPayload(sub', foodResult'.value).calories = FoodFallback.calories
       /\ (sub'.pc = "awaitInsert" /\ sub.page = "/exercise-log" /\ exResp'.kind # "json") =>
            ExercisePayload(sub', exResult'.value).calories_burned =
              ExerciseFallback(sub.duration).caloriesBurned]_vars

\* C12: every Record Store failure (error result or thrown exception) of a
\* list, insert or delete request of the FoodLog, ExerciseLog or Dashboard
\* page produces a user-visible failure notification, and the handler of the
\* failed request issues no request of its own.
C12_FailuresNotified ==
  [][(lastEvent'.failed /\ lastEvent'.op \in {"list", "insert", "delete"}) =>
       /\ lastEvent'.toast = "destructive"
       /\ listReqs' \subseteq listReqs
       /\ delReqs' \subseteq delReqs
       /\ sub'.pc \in {"idle", sub.pc}]_vars

C14_OwnerIsInserter ==
  [][/\ \A row \in food_logs' \ food_logs :
          sub.pc = "awaitInsert" /\ sub.jwt # NoUser /\ row.user_id = sub.jwt
     /\ \A row \in exercise_logs' \ exercise_logs :
          sub.pc = "awaitInsert" /\ sub.jwt # NoUser /\ row.user_id = sub.jwt]_vars

\* an entry was persisted by a handler whose page went away while it awaited
C14_Witness ==
  /\ sub.pc = "awaitRefresh"
  /\ sub.mode = "orphan"
  /\ authUid = sub.uid
  /\ \/ \E row \in food_logs : row.id = nextId /\ row.user_id = sub.uid
     \/ \E row \in exercise_logs : row.id = nextId /\ row.user_id = sub.uid

\* the calendar day of an instant, in the calendar of the list windows (UTC)
CalendarDay(instant) == instant \div MsPerDay

\* C15: when a page has read the selected day with the user's session, the
\* total it shows equals the sum of the calorie fields (calories,
\* calories_burned) of exactly the signed-in user's entries of that day in
\* the Record Store.
C15_TotalsMatchStore ==
  [][\A req \in listReqs \ listReqs' :
       (/\ req.mode = "live"
        /\ lastEvent'.op = "list"
        /\ ~lastEvent'.failed
        /\ req.jwt = ctxUser
        /\ req.dateStr = FormatDay(selectedDate, tzOffset)) =>
         /\ req.page \in {"/food-log", "/dashboard"} =>
              FoodTotal(foodLogs') =
                FoodTotal({row \in food_logs :
                             /\ row.user_id = ctxUser
                             /\ CalendarDay(row.created_at) = req.dateStr})
         /\ req.page \in {"/exercise-log", "/dashboard"} =>
              ExerciseTotal(exerciseLogs') =
                ExerciseTotal({row \in exercise_logs :
                                 /\ row.user_id = ctxUser
                                 /\ CalendarDay(row.created_at) = req.dateStr})]_vars

\* the dates a user can select around the days of the model
SelectableDays == UNION {{d - 1, d, d + 1} : d \in Days}

\* C19: an entry's created timestamp determines exactly one calendar day:
\* for the created_at of every entry there is exactly one selectable date
\* whose listing query (created_at >= day start and < day end) returns it.
C19_OneDayPerEntry ==
  /\ \A row \in food_logs :
       Cardinality({d \in SelectableDays : InDayWindow(row.created_at, d)}) = 1
  /\ \A row \in exercise_logs :
       Cardinality({d \in SelectableDays : InDayWindow(row.created_at, d)}) = 1

\* the step settles the delete request req
DeleteSettled(req) == req \in delReqs /\ delReqs' = delReqs \ {req}

\* C17: log entries are immutable and deleted independently: a successful
\* handleDeleteLog(id) removes exactly the entry with that id, and every
\* other operation leaves every existing entry, with all its fields, in place.
C17_DeleteExactlyOne ==
  [][IF \E req \in delReqs : DeleteSettled(req)
       THEN \A req \in delReqs :
              (/\ DeleteSettled(req)
               /\ req.mode # "dead"
               /\ lastEvent' = Event("delete", req.page, FALSE, "default")) =>
                /\ food_logs' = {row \in food_logs :
                                   ~(req.page = "/food-log" /\ row.id = req.id)}
                /\ exercise_logs' = {row \in exercise_logs :
                                       ~(req.page = "/exercise-log" /\ row.id = req.id)}
       ELSE /\ food_logs \subseteq food_logs'
            /\ exercise_logs \subseteq exercise_logs']_vars

C20_ProtectedNeedsUser ==
  /\ location \in Protected => ctxUser # NoUser
  /\ (lastEvent.op = "redirect" /\ ctxUser = NoUser) => location = "/login"

\* a protected route was requested without a user
C20_Witness ==
  /\ lastEvent.op = "redirect"
  /\ lastEvent.page \in Protected
  /\ ctxUser = NoUser
  /\ location = "/login"

----------------------------------------------------------------------------
(* Properties of the Profile form's goal and of the macro goals *)

\* C24: for every input the Profile form accepts (age 13..120, height
\* 100..250, weight 30..300, gender male/female/other, any selectable activity
\* level and fitness goal) the daily_calorie_goal Profile.handleSubmit
\* computes is a positive integer, as the users table requires.
C24_FormGoalPositive ==
  profilePc = "awaitUpdate" => updates.daily_calorie_goal > 0

\* C25: for every complete profile with positive age, height and weight the
\* macro goals returned by calculateNutrientGoals are all non-negative; in
\* particular carbsGoal >= 0.
C25_MacrosNonNegative ==
  (goals.computed /\ Complete(userProfile)) =>
    /\ goals.value.proteinGoal >= 0
    /\ goals.value.fatGoal >= 0
    /\ goals.value.carbsGoal >= 0

\* the energy of the macro goals minus the calorie target
EnergyGap(g) == 4 * g.proteinGoal + 9 * g.fatGoal + 4 * g.carbsGoal - g.tdee

\* C30: for every complete profile the energy of the returned macro goals
\* matches the returned calorie target up to rounding:
\* |4 proteinGoal + 9 fatGoal + 4 carbsGoal - tdee| <= 2.
C30_EnergyMatchesTarget ==
  (goals.computed /\ Complete(userProfile)) =>
    /\ EnergyGap(goals.value) <= 2
    /\ EnergyGap(goals.value) >= -2

\* a profile whose goals differ from the target by the full 2 kcal
C30_Witness ==
  /\ goals.computed
  /\ Complete(userProfile)
  /\ EnergyGap(goals.value) = -2

----------------------------------------------------------------------------
(* Properties of the Dashboard *)

\* C29: on the Dashboard, for every set of food and exercise entries of the
\* day and every stored daily_calorie_goal, progressPercentage =
\* min(netCalories / dailyGoal x 100, 100) lies between 0 and 100 inclusive.
C29_ProgressInRange ==
  location = "/dashboard" =>
    /\ ProgressPercentage.num >= 0
    /\ ProgressPercentage.num <= 100 * ProgressPercentage.den

----------------------------------------------------------------------------
(* Properties of the Profile form against table users *)

\* C27: a Profile form submission is never rejected by the users table
\* schema: every field the form submits is a column of the table, and every
\* activity level and fitness goal the form offers is among the values the
\* table's CHECK constraints allow.
C27_FormFitsSchema ==
  profilePc = "awaitUpdate" =>
    /\ DOMAIN updates \subseteq UsersColumns
    /\ updates.activity_level \in UserActivityLevels
    /\ updates.fitness_goal \in UserFitnessGoals

----------------------------------------------------------------------------
(* Properties of the session *)

\* C26: on a page load with authUser present in localStorage, AuthProvider
\* restores the user from storage and a protected route shows its children
\* without ProtectedRoute navigating to /login.
C26_ReloadKeepsRoute ==
  [][(Reload /\ lsUser # NoUser /\ location \in Protected) =>
       /\ ctxUser' = lsUser
       /\ location' = location]_vars

----------------------------------------------------------------------------
(* Properties of the refresh after a submit and of overlapping requests *)

\* C21: after a successful submit on the FoodLog or ExerciseLog page, the
\* list refreshed for the selected date contains the entry just created, for
\* every selected date and time of day and every offset between local time
\* and UTC.
C21_SubmittedEntryListed ==
  [][\A req \in listReqs \ listReqs' :
       (/\ req.after = "submit"
        /\ req.mode = "live"
        /\ req.jwt = req.uid
        /\ lastEvent' = Event("list", req.page, FALSE, "none")) =>
         \E row \in foodLogs' \cup exerciseLogs' : row.id = nextId]_vars

\* nothing of the mounted page is in flight
PageQuiet(reqs, s, dels) ==
  /\ \A r \in reqs : r.mode # "live"
  /\ s.pc = "idle"
  /\ dels = {}

\* C22: when the selected date changes (or a submit or delete refresh runs)
\* while an earlier list request is still in flight, then once all in-flight
\* requests have completed the displayed entries and totals are those
\* returned for the currently selected date, whatever order the responses
\* arrive in.
C22_ShowsSelectedDate ==
  [][\A req \in listReqs \ listReqs' :
       (/\ req.mode = "live"
        /\ lastEvent' = Event("list", req.page, FALSE, "none")
        /\ PageQuiet(listReqs', sub', delReqs')) =>
         /\ req.page \in {"/food-log", "/dashboard"} =>
              /\ foodLogs' = ListRows(food_logs, req.jwt, req.uid,
                                      FormatDay(selectedDate, tzOffset))
              /\ FoodTotal(foodLogs') =
                   FoodTotal(ListRows(food_logs, req.jwt, req.uid,
                                      FormatDay(selectedDate, tzOffset)))
         /\ req.page \in {"/exercise-log", "/dashboard"} =>
              /\ exerciseLogs' = ListRows(exercise_logs, req.jwt, req.uid,
                                          FormatDay(selectedDate, tzOffset))
              /\ ExerciseTotal(exerciseLogs') =
                   ExerciseTotal(ListRows(exercise_logs, req.jwt, req.uid,
                                          FormatDay(selectedDate, tzOffset)))]_vars


----------------------------------------------------------------------------
(* Properties of the authentication provider *)

\* C23: under any interleaving of signIn, signUp, signOut, refreshProfile,
\* updateProfile and the initial load, once no call of them is in flight and
\* no user is signed in, there is no profile and neither localStorage key
\* holds one
C23_SessionConsistent ==
  (authCalls = {} /\ ctxUser = NoUser) =>
    /\ profileId = NoUser
    /\ lsUser = NoUser
    /\ lsProfile = Absent


\* the provider call of signIn, signUp or signOut fails
AuthFailures == {"error", "throw"}

\* C28: a signIn, signUp or signOut whose provider call gives an error or
\* throws leaves user, userProfile, session and the localStorage keys authUser
\* and authProfile as they were and returns the error to its caller
C28_FailureChangesNothing ==
  [][\A call \in authCalls, outcome \in AuthFailures :
       (SignInAuthSettle(call, outcome) \/ SignOutSettle(call, outcome)) =>
         /\ UNCHANGED <<ctxUser, userProfile, profileId, session, lsUser, lsProfile>>
         /\ lastEvent'.op = call.op
         /\ lastEvent'.failed]_vars

\* a sign-out has just failed for a user who is signed in with a stored profile
C28_Witness ==
  /\ lastEvent.op = "signOut"
  /\ lastEvent.failed
  /\ authCalls = {}
  /\ ctxUser \in Users
  /\ profileId = ctxUser
  /\ lsUser = ctxUser
  /\ lsProfile = ctxUser

====
